---------------------------- MODULE Spec2Model ----------------------------
(***************************************************************************)
(* Turn-processing pipeline of the customer-support chatbot:               *)
(*   app/core/chat_service.py  ChatService      (turn orchestration)       *)
(*   app/core/memory.py        MemoryManager    (sliding-window memory)    *)
(*   app/llm/chain.py          ChatChain        (routing and synthesis)    *)
(*   app/core/tools.py         the three lookup tools                      *)
(*   app/llm/prompts.py        FALLBACK_PROMPT                             *)
(*                                                                         *)
(* A text (a Python str) is a sequence of fragments (TLA+ strings); the    *)
(* text is the concatenation of its fragments.  Substring tests, suffix    *)
(* tests and strip() work on fragments, so a marker such as "Ringkas:" is  *)
(* one fragment and a line break is the fragment "\n".                     *)
(*                                                                         *)
(* Every request owns its own AsyncSession (app/db/session.py              *)
(* get_db_session), so each process p has its own set pending[p] of        *)
(* objects added but not yet committed.  Every await of process_message    *)
(* is one atomic step of the process that runs it.                         *)
(***************************************************************************)
EXTENDS Naturals, Sequences, FiniteSets

\* ------------------------------------------------------------ bounds
MaxCalls == 3
MaxClears == 1

\* int(os.getenv("MAX_MEMORY_EXCHANGES", "3"))
MAX_MEMORY_EXCHANGES == 3

\* The configured windows the model runs with: the smallest and the default.
Windows == {1, MAX_MEMORY_EXCHANGES}

\* A process is a request slot; a new request takes the lowest free slot, so
\* that runs differing only in the names of their slots are explored once.
Procs == {1, 2}

\* Session names; the first request of a run names the first of them, so
\* that runs differing only in the names of their sessions are explored once.
Sessions == {"s1", "s2"}
FirstSession == "s1"

\* ------------------------------------------------------------ texts
NL == "\n"
RINGKAS == "Ringkas:"

IsSpace(t) == t \in {" ", "\n", "\t"}

RECURSIVE LStrip(_)
LStrip(s) == IF s # <<>> /\ IsSpace(Head(s)) THEN LStrip(Tail(s)) ELSE s

RECURSIVE RStrip(_)
RStrip(s) ==
    IF s # <<>> /\ IsSpace(s[Len(s)]) THEN RStrip(SubSeq(s, 1, Len(s) - 1)) ELSE s

\* str.strip()
Strip(s) == LStrip(RStrip(s))

\* str.endswith(suf)
EndsWith(s, suf) ==
    /\ Len(suf) <= Len(s)
    /\ SubSeq(s, Len(s) - Len(suf) + 1, Len(s)) = suf

\* sub in s
Contains(s, sub) ==
    \E i \in 0..(Len(s) - Len(sub)) : SubSeq(s, i + 1, i + Len(sub)) = sub

\* The last line of a text: what follows its last line break.
RECURSIVE LastLine(_)
LastLine(s) ==
    IF \E i \in DOMAIN s : s[i] = NL
    THEN LastLine(Tail(s))
    ELSE s

\* A text ends with a line that starts with "Ringkas:" (trailing blank space
\* is not counted as a line).
EndsWithRingkasLine(s) ==
    LET l == LastLine(RStrip(s)) IN l # <<>> /\ Head(l) = RINGKAS

\* ------------------------------------------------------------ fragments
\* An utterance is cut so that every fragment is either a run of letters and
\* digits or one other character, and so that a keyword occurrence is made of
\* whole fragments ("order" is "ord" "er", "ORD123" is "ORD" "123").

\* str.lower() of one fragment, for the fragments written with capitals.
Lower(t) ==
    CASE t = "ID" -> "id"
      [] t = "Id" -> "id"
      [] t = "ORD" -> "ord"
      [] t = "Ord" -> "ord"
      [] t = "Di" -> "di"
      [] t = "Pesanan" -> "pesanan"
      [] t = "Status" -> "status"
      [] t = "Produk" -> "produk"
      [] t = "Laptop" -> "laptop"
      [] t = "Gaming" -> "gaming"
      [] t = "X" -> "x"
      [] t = "Pro" -> "pro"
      [] t = "Garansi" -> "garansi"
      [] t = "Halo" -> "halo"
      [] t = "Berapa" -> "berapa"
      [] OTHER -> t

\* str.lower()
ToLower(s) == [i \in 1..Len(s) |-> Lower(s[i])]

IsAlnum(t) == t \notin {" ", "\n", "\t", "?", ".", ":", ",", "!", "'", "%", "_", RINGKAS}

\* Least j >= i that is past the text or at a fragment that is not blank.
RECURSIVE SkipSpaces(_, _)
SkipSpaces(s, i) ==
    IF i <= Len(s) /\ IsSpace(s[i]) THEN SkipSpaces(s, i + 1) ELSE i

\* Least j >= i that is past the text or at a fragment outside [A-Za-z0-9].
RECURSIVE SkipAlnum(_, _)
SkipAlnum(s, i) ==
    IF i <= Len(s) /\ IsAlnum(s[i]) THEN SkipAlnum(s, i + 1) ELSE i

\* Least j >= i that is past the text or at a fragment outside [A-Za-z0-9\s].
RECURSIVE SkipAlnumSpace(_, _)
SkipAlnumSpace(s, i) ==
    IF i <= Len(s) /\ (IsAlnum(s[i]) \/ IsSpace(s[i]))
    THEN SkipAlnumSpace(s, i + 1) ELSE i

Least(S) == CHOOSE i \in S : \A j \in S : i <= j

\* any(keyword.lower() in message_lower for keyword in keywords)
AnyKeyword(keywords, message) ==
    \E k \in keywords : Contains(ToLower(message), ToLower(k))

\* ------------------------------------------------------------ routing
OrderKeywords ==
    { <<"pesanan">>, <<"ord", "er">>, <<"status">>, <<"di", " ", "mana">>,
      <<"dimana">>, <<"ID", ":">>, <<"id", ":">>, <<"ORD">> }

ProductKeywords ==
    { <<"produk">>, <<"kelebihan">>, <<"fitur">>, <<"spesifikasi">>, <<"harga">>,
      <<"laptop">>, <<"smartphone">>, <<"apa", " ", "kelebihan">> }

WarrantyKeywords ==
    { <<"garansi">>, <<"warranty">>, <<"klaim">>, <<"cara", " ", "klaim">>,
      <<"prosedur">> }

ShouldCallOrderTool(message) == AnyKeyword(OrderKeywords, message)

ShouldCallProductTool(message) == AnyKeyword(ProductKeywords, message)

ShouldCallWarrantyTool(message) == AnyKeyword(WarrantyKeywords, message)

\* r"ID\s*:\s*([A-Z0-9]+)" with re.IGNORECASE, tried at fragment i: the
\* end of the group, or 0 when there is no match at i.
IdPatternAt(s, i) ==
    IF Lower(s[i]) # "id" THEN 0
    ELSE LET c == SkipSpaces(s, i + 1) IN
         IF c > Len(s) \/ s[c] # ":" THEN 0
         ELSE LET g == SkipSpaces(s, c + 1)
                  e == SkipAlnum(s, g)
              IN IF e > g THEN e - 1 ELSE 0

\* r"\b(ORD[A-Z0-9]+)\b" with re.IGNORECASE, tried at fragment i.
OrdPatternAt(s, i) ==
    IF Lower(s[i]) # "ord" THEN 0
    ELSE IF i > 1 /\ (IsAlnum(s[i - 1]) \/ s[i - 1] = "_") THEN 0
    ELSE LET e == SkipAlnum(s, i + 1) IN
         IF e > i + 1 /\ (e > Len(s) \/ s[e] # "_") THEN e - 1 ELSE 0

\* _extract_order_id: the first pattern that matches anywhere wins; "" if none.
ExtractOrderId(message) ==
    LET idAt == {i \in 1..Len(message) : IdPatternAt(message, i) > 0}
        ordAt == {i \in 1..Len(message) : OrdPatternAt(message, i) > 0}
    IN IF idAt # {}
       THEN LET i == Least(idAt)
                e == IdPatternAt(message, i)
                g == SkipSpaces(message, SkipSpaces(message, i + 1) + 1)
            IN SubSeq(message, g, e)
       ELSE IF ordAt # {}
       THEN LET i == Least(ordAt) IN SubSeq(message, i, OrdPatternAt(message, i))
       ELSE <<>>

\* r"<kw>\s+([A-Za-z0-9\s]+?)[\?\.]" with re.IGNORECASE, tried at fragment
\* i: <<TRUE, group(1)>> on a match.  \s+ is greedy and hands a blank back
\* to the group only when nothing else can fill it.
NamePatternAt(s, kw, i) ==
    IF Lower(s[i]) # kw \/ i = Len(s) \/ ~IsSpace(s[i + 1]) THEN <<FALSE, <<>>>>
    ELSE LET g == SkipSpaces(s, i + 1)
             e == SkipAlnumSpace(s, i + 1)
         IN IF e > Len(s) \/ s[e] \notin {"?", "."} THEN <<FALSE, <<>>>>
            ELSE IF e > g THEN <<TRUE, SubSeq(s, g, e - 1)>>
            ELSE IF g - (i + 1) >= 2 THEN <<TRUE, <<s[e - 1]>>>>
            ELSE <<FALSE, <<>>>>

\* str.split(): the words of a text, blanks dropped.
RECURSIVE Words(_)
Words(s) ==
    LET t == LStrip(s) IN
    IF t = <<>> THEN <<>>
    ELSE LET e == CHOOSE j \in 1..(Len(t) + 1) :
                    /\ j > Len(t) \/ IsSpace(t[j])
                    /\ \A k \in 1..(j - 1) : ~IsSpace(t[k])
         IN <<SubSeq(t, 1, e - 1)>> \o Words(SubSeq(t, e, Len(t)))

\* " ".join(words)
RECURSIVE JoinWords(_)
JoinWords(ws) ==
    IF ws = <<>> THEN <<>>
    ELSE IF Len(ws) = 1 THEN ws[1]
    ELSE ws[1] \o <<" ">> \o JoinWords(Tail(ws))

\* str.strip(".,?!")
RECURSIVE StripPunct(_)
StripPunct(s) ==
    IF s # <<>> /\ Head(s) \in {".", ",", "?", "!"} THEN StripPunct(Tail(s))
    ELSE IF s # <<>> /\ s[Len(s)] \in {".", ",", "?", "!"}
    THEN StripPunct(SubSeq(s, 1, Len(s) - 1))
    ELSE s

NameKeywords == <<"produk", "laptop", "smartphone">>

\* message.lower().split(kw)[1]: what lies between the first occurrence of
\* kw and the next one (or the end).
AfterKeyword(s, kw) ==
    LET at == {i \in 1..Len(s) : s[i] = kw}
        i == Least(at)
        rest == {j \in at : j > i}
    IN SubSeq(s, i + 1, IF rest = {} THEN Len(s) ELSE Least(rest) - 1)

\* _extract_product_name
ExtractProductName(message) ==
    LET hit(k) == {i \in 1..Len(message) : NamePatternAt(message, NameKeywords[k], i)[1]}
        pats == {k \in 1..3 : hit(k) # {}}
        low == ToLower(message)
        kws == {k \in 1..3 : \E i \in 1..Len(low) : low[i] = NameKeywords[k]}
    IN IF pats # {}
       THEN LET k == Least(pats)
            IN Strip(NamePatternAt(message, NameKeywords[k], Least(hit(k)))[2])
       ELSE IF kws # {}
       THEN LET k == Least(kws)
                w == Words(Strip(AfterKeyword(low, NameKeywords[k])))
            IN StripPunct(JoinWords(SubSeq(w, 1, IF Len(w) < 3 THEN Len(w) ELSE 3)))
       ELSE <<"produk">>

\* ------------------------------------------------------------ tools
\* Reference Data is a record db: orders (a set of rows, id the primary
\* key), products (rows in storage order), policies (a set of rows) and
\* fault (the lookup query raises).  A NULL or empty column is the empty
\* string, which Python treats alike in "if x"; a NULL stock is {}.

\* str.join(sep) over a sequence of texts
RECURSIVE Join(_, _)
Join(sep, parts) ==
    IF parts = <<>> THEN <<>>
    ELSE IF Len(parts) = 1 THEN parts[1]
    ELSE parts[1] \o sep \o Join(sep, Tail(parts))

\* status_messages.get(order.status, order.status)
StatusText(status) ==
    CASE status = "pending" -> "sedang diproses"
      [] status = "confirmed" -> "telah dikonfirmasi"
      [] status = "shipped" -> "sedang dalam pengiriman"
      [] status = "delivered" -> "telah sampai tujuan"
      [] status = "cancelled" -> "telah dibatalkan"
      [] OTHER -> status

\* A variant that gives the ETA whatever the status.
GetOrderStatusEtaAlways(order_id, db) ==
    LET found == {o \in db.orders : o.id = order_id} IN
    IF db.fault \/ found = {} THEN <<"Pesanan", " ">> \o order_id
    ELSE LET order == CHOOSE o \in found : TRUE
             p1 == << <<"Pesanan", " ">> \o order_id \o <<" ", StatusText(order.status)>> >>
             p2 == IF order.carrier # "" /\ order.tracking_number # ""
                   THEN << <<"via", " ", order.carrier, " ", "dengan nomor resi", " ",
                             order.tracking_number>> >>
                   ELSE <<>>
             p3 == IF order.eta_date # ""
                   THEN << <<"dengan estimasi tiba", " ", order.eta_date>> >>
                   ELSE <<>>
         IN Join(<<".", " ">>, p1 \o p2 \o p3) \o <<".">>

\* get_order_status_impl
GetOrderStatus(order_id, db) ==
    LET found == {o \in db.orders : o.id = order_id} IN
    IF db.fault
    THEN <<"Maaf, terjadi kesalahan saat mencari pesanan", " ">> \o order_id
         \o <<".", " ", "Silakan coba lagi atau hubungi customer service.">>
    ELSE IF found = {}
    THEN <<"Pesanan dengan ID", " ">> \o order_id \o <<" ", "tidak ditemukan", ".", " ",
           "Pastikan ID pesanan benar atau hubungi customer service.">>
    ELSE LET order == CHOOSE o \in found : TRUE
             p1 == << <<"Pesanan", " ">> \o order_id \o <<" ", StatusText(order.status)>> >>
             p2 == IF order.carrier # "" /\ order.tracking_number # ""
                   THEN << <<"via", " ", order.carrier, " ", "dengan nomor resi", " ",
                             order.tracking_number>> >>
                   ELSE <<>>
             p3 == IF order.eta_date # "" /\ order.status \in {"confirmed", "shipped"}
                   THEN << <<"dengan estimasi tiba", " ", order.eta_date>> >>
                   ELSE <<>>
             p4 == IF order.last_update_at # ""
                   THEN << <<"Terakhir diupdate:", " ", order.last_update_at>> >>
                   ELSE <<>>
         IN Join(<<".", " ">>, p1 \o p2 \o p3 \o p4) \o <<".">>

\* f"Rp {price:,.0f}".replace(",", ".") for the prices of the modelled catalogue
FormatPrice(price) ==
    CASE price = 18500000 -> "Rp 18.500.000"
      [] price = 950 -> "Rp 950"
      [] OTHER -> "Rp"

\* str(n) for the stock levels of the modelled catalogue
StockText(n) ==
    CASE n = 0 -> "0" [] n = 1 -> "1" [] n = 5 -> "5" [] OTHER -> "9"

\* get_product_info_impl
GetProductInfo(product_name, db) ==
    LET hits == {i \in 1..Len(db.products) :
                    Contains(ToLower(db.products[i].name), ToLower(product_name))}
    IN
    IF db.fault
    THEN <<"Maaf, terjadi kesalahan saat mencari produk", " ", "'">> \o product_name
         \o <<"'", ".", " ", "Silakan coba lagi.">>
    ELSE IF hits = {}
    THEN <<"Produk", " ", "'">> \o product_name \o <<"'", " ", "tidak ditemukan", ".", " ",
           "Silakan periksa nama produk atau lihat katalog lengkap di website kami.">>
    ELSE LET product == db.products[Least(hits)]
             p1 == << <<"Produk:", " ">> \o product.name >>
             p2 == IF product.features # ""
                   THEN << <<"Fitur:", " ", product.features>> >> ELSE <<>>
             p3 == IF product.price # 0
                   THEN << <<"Harga:", " ", FormatPrice(product.price)>> >> ELSE <<>>
             p4 == IF product.stock = {} THEN <<>>
                   ELSE IF \E n \in product.stock : n > 0
                   THEN << <<"Stok:", " ", StockText(CHOOSE n \in product.stock : TRUE),
                             " ", "unit tersedia">> >>
                   ELSE << <<"Stok: sedang kosong">> >>
         IN Join(<<".", " ">>, p1 \o p2 \o p3 \o p4) \o <<".">>

DefaultWarrantyText ==
    << "Prosedur klaim garansi:", NL,
       "1. Siapkan nota pembelian asli dan kartu garansi", NL,
       "2. Hubungi customer service di 0800-1234-5678 (gratis) atau email cs@toko.com", NL,
       "3. Jelaskan masalah produk dengan detail", NL,
       "4. Tim CS akan memberikan instruksi selanjutnya (perbaikan atau penggantian)", NL,
       "5. Garansi berlaku 1 tahun dari tanggal pembelian untuk kerusakan manufaktur", NL,
       NL,
       "Catatan: Garansi tidak berlaku untuk kerusakan akibat kesalahan penggunaan atau faktor eksternal." >>

\* A variant that gives the default procedure whatever is stored.
GetWarrantyPolicyIgnoresStored(db) ==
    IF db.fault
    THEN <<"Maaf, terjadi kesalahan saat mengambil informasi garansi", ".", " ",
           "Silakan hubungi customer service di 0800-1234-5678.">>
    ELSE DefaultWarrantyText

\* get_warranty_policy_impl; scalar_one_or_none raises on several rows, and
\* the except clause turns every raise into the apology.
GetWarrantyPolicy(db) ==
    LET found == {q \in db.policies : q.type = "warranty"} IN
    IF db.fault \/ Cardinality(found) > 1
    THEN <<"Maaf, terjadi kesalahan saat mengambil informasi garansi", ".", " ",
           "Silakan hubungi customer service di 0800-1234-5678.">>
    ELSE IF found = {} THEN DefaultWarrantyText
    ELSE (CHOOSE q \in found : TRUE).content_markdown

\* ------------------------------------------------------------ synthesis
\* prompts.FALLBACK_PROMPT
FALLBACK_PROMPT ==
    << "Maaf, saya adalah chatbot customer support yang khusus membantu dengan:", NL,
       NL,
       "1. **Status Pesanan** ... hubungi customer service di 0800-1234-5678 untuk bantuan lainnya.",
       NL, NL,
       RINGKAS, " ",
       "Saya membantu status pesanan, info produk, dan klaim garansi - silakan tanyakan sesuai kategori tersebut." >>

ToolSummary(key) ==
    CASE key = "order_status" -> "Informasi pesanan telah ditemukan dan disampaikan."
      [] key = "product_info" -> "Informasi produk telah disampaikan dengan lengkap."
      [] key = "warranty_policy" -> "Prosedur klaim garansi telah dijelaskan lengkap."

\* _generate_response_with_tools: tool_results holds one key and its text
GenerateResponseWithTools(tool_results) ==
    LET key == tool_results[1][1]
        res == tool_results[1][2]
    IN IF key \in {"order_status", "product_info", "warranty_policy"}
       THEN IF ~EndsWith(res, <<RINGKAS>>)
            THEN res \o <<NL, NL, RINGKAS, " ", ToolSummary(key)>>
            ELSE res
       ELSE <<"Maaf, terjadi kesalahan dalam memproses permintaan Anda.">>

\* A variant that answers nothing when the backend raises.
GenerateRegularResponseEmptyOnRaise(backend) ==
    IF backend.kind = "raise" THEN <<>> ELSE backend.text

\* _generate_regular_response: the backend's text, or the fallback when the
\* backend raises
GenerateRegularResponse(backend) ==
    IF backend.kind = "raise" THEN FALLBACK_PROMPT ELSE backend.text

\* The tail of invoke: "Ensure response ends with Ringkas: ..."
EnsureRingkas(response_message) ==
    IF ~EndsWith(Strip(response_message), <<RINGKAS>>)
       /\ ~Contains(response_message, <<RINGKAS>>)
    THEN response_message
         \o <<NL, NL, RINGKAS, " ", "Sudah memberikan jawaban sesuai pertanyaan Anda.">>
    ELSE response_message

\* A variant in which a failing lookup escapes the tool, so that the turn has
\* neither a tool call nor a tool result.
DispatchDropsFailedLookup(message, db) ==
    IF db.fault THEN << <<>>, <<>> >>
    ELSE IF ShouldCallOrderTool(message)
    THEN IF ExtractOrderId(message) # <<>>
         THEN << <<"get_order_status">>,
                 << <<"order_status", GetOrderStatus(ExtractOrderId(message), db)>> >> >>
         ELSE << <<>>, <<>> >>
    ELSE IF ShouldCallProductTool(message)
    THEN IF ExtractProductName(message) # <<>>
         THEN << <<"get_product_info">>,
                 << <<"product_info", GetProductInfo(ExtractProductName(message), db)>> >> >>
         ELSE << <<>>, <<>> >>
    ELSE IF ShouldCallWarrantyTool(message)
    THEN << <<"get_warranty_policy">>,
            << <<"warranty_policy", GetWarrantyPolicy(db)>> >> >>
    ELSE << <<>>, <<>> >>

\* A variant that tests the product intent before the order intent.
DispatchProductFirst(message, db) ==
    IF ShouldCallProductTool(message)
    THEN IF ExtractProductName(message) # <<>>
         THEN << <<"get_product_info">>,
                 << <<"product_info", GetProductInfo(ExtractProductName(message), db)>> >> >>
         ELSE << <<>>, <<>> >>
    ELSE IF ShouldCallOrderTool(message)
    THEN IF ExtractOrderId(message) # <<>>
         THEN << <<"get_order_status">>,
                 << <<"order_status", GetOrderStatus(ExtractOrderId(message), db)>> >> >>
         ELSE << <<>>, <<>> >>
    ELSE IF ShouldCallWarrantyTool(message)
    THEN << <<"get_warranty_policy">>,
            << <<"warranty_policy", GetWarrantyPolicy(db)>> >> >>
    ELSE << <<>>, <<>> >>

\* A variant in which an order intent without an order id falls through to
\* the tests of the other intents.
DispatchFallsThrough(message, db) ==
    IF ShouldCallOrderTool(message) /\ ExtractOrderId(message) # <<>>
    THEN << <<"get_order_status">>,
            << <<"order_status", GetOrderStatus(ExtractOrderId(message), db)>> >> >>
    ELSE IF ShouldCallProductTool(message) /\ ExtractProductName(message) # <<>>
    THEN << <<"get_product_info">>,
            << <<"product_info", GetProductInfo(ExtractProductName(message), db)>> >> >>
    ELSE IF ShouldCallWarrantyTool(message)
    THEN << <<"get_warranty_policy">>,
            << <<"warranty_policy", GetWarrantyPolicy(db)>> >> >>
    ELSE << <<>>, <<>> >>

\* A variant with three independent ifs instead of the if/elif chain: every
\* intent that matches calls its tool.
DispatchEveryMatch(message, db) ==
    LET order ==
            IF ShouldCallOrderTool(message) /\ ExtractOrderId(message) # <<>>
            THEN << <<"get_order_status">>,
                    << <<"order_status", GetOrderStatus(ExtractOrderId(message), db)>> >> >>
            ELSE << <<>>, <<>> >>
        product ==
            IF ShouldCallProductTool(message) /\ ExtractProductName(message) # <<>>
            THEN << <<"get_product_info">>,
                    << <<"product_info", GetProductInfo(ExtractProductName(message), db)>> >> >>
            ELSE << <<>>, <<>> >>
        warranty ==
            IF ShouldCallWarrantyTool(message)
            THEN << <<"get_warranty_policy">>,
                    << <<"warranty_policy", GetWarrantyPolicy(db)>> >> >>
            ELSE << <<>>, <<>> >>
    IN << order[1] \o product[1] \o warranty[1], order[2] \o product[2] \o warranty[2] >>

\* The if/elif chain of invoke: <<tool_calls, tool_results>>
Dispatch(message, db) ==
    IF ShouldCallOrderTool(message)
    THEN LET order_id == ExtractOrderId(message) IN
         IF order_id # <<>>
         THEN << <<"get_order_status">>,
                 << <<"order_status", GetOrderStatus(order_id, db)>> >> >>
         ELSE << <<>>, <<>> >>
    ELSE IF ShouldCallProductTool(message)
    THEN LET product_name == ExtractProductName(message) IN
         IF product_name # <<>>
         THEN << <<"get_product_info">>,
                 << <<"product_info", GetProductInfo(product_name, db)>> >> >>
         ELSE << <<>>, <<>> >>
    ELSE IF ShouldCallWarrantyTool(message)
    THEN << <<"get_warranty_policy">>,
            << <<"warranty_policy", GetWarrantyPolicy(db)>> >> >>
    ELSE << <<>>, <<>> >>

\* A variant that calls the backend a second time when the first call raises.
BackendCallsWithRetry(message, db, backend) ==
    IF Dispatch(message, db)[2] # <<>> THEN 0
    ELSE IF backend.kind = "raise" THEN 2 ELSE 1

\* How often invoke awaits self.llm.ainvoke: once, in
\* _generate_regular_response, on the branch without tool results.
BackendCalls(message, db, backend) ==
    IF Dispatch(message, db)[2] # <<>> THEN 0 ELSE 1

\* How often invoke awaits a tool's func: once per tool call.
ToolInvocations(message, db) == Len(Dispatch(message, db)[1])

\* ChatChain.invoke
ChatChainInvoke(message, context, db, backend) ==
    LET d == Dispatch(message, db)
        tool_calls == d[1]
        tool_results == d[2]
        response_message ==
            IF tool_results # <<>>
            THEN GenerateResponseWithTools(tool_results)
            ELSE GenerateRegularResponse(backend)
    IN [message |-> EnsureRingkas(response_message), tool_calls |-> tool_calls]

\* ------------------------------------------------------------ state
VARIABLES
    messages,        \* the messages table (committed rows)
    now,             \* clock: datetime.utcnow() of the next row
    max_exchanges,   \* MemoryManager.max_exchanges (MAX_MEMORY_EXCHANGES)
    pc,              \* position of each process_message call
    session_id,      \* its session_id argument
    user_message,    \* its user_message argument
    turn_index,      \* its local turn_index
    user_msg,        \* its local user_msg (the saved row)
    memory_rows,     \* the rows get_memory_context selected
    memory_context,  \* its local memory_context
    llm_response,    \* its local llm_response
    collab,          \* what its collaborators were when invoke ran: the
                     \* Reference Data its tools read, the backend's outcome
    pending,         \* rows added to its db_session, not yet committed
    result,          \* what the call gave its caller
    started,         \* number of process_message calls started
    cleared,         \* number of clear_memory calls
    calls,           \* per session: calls started since the session was empty
    before           \* per process: the messages table when its call started

vars == << messages, now, max_exchanges, pc, session_id, user_message,
           turn_index, user_msg, memory_rows, memory_context, llm_response,
           collab, pending, result, started, cleared, calls, before >>

NoMessage ==
    [session_id |-> "", role |-> "", content |-> <<>>, turn_index |-> 0,
     created_at |-> 0]

NoResponse == [message |-> <<>>, tool_calls |-> <<>>]

\* No invoke has run in the call.
NoCollab ==
    [db |-> [orders |-> {}, products |-> <<>>, policies |-> {}, fault |-> FALSE],
     backend |-> [kind |-> "none", text |-> <<>>],
     backend_calls |-> 0, tool_invocations |-> 0]

NoResult == [status |-> "none", message |-> <<>>, turn_index |-> 0,
             tool_calls |-> <<>>]

\* ------------------------------------------------------------ memory
\* ORDER BY turn_index, created_at: a < b
RowLess(a, b) ==
    \/ a.turn_index < b.turn_index
    \/ a.turn_index = b.turn_index /\ a.created_at < b.created_at

\* A variant that orders ascending, so that the limit keeps the oldest rows.
OrderByAsc(rows) ==
    [i \in 1..Cardinality(rows) |->
        CHOOSE m \in rows : Cardinality({o \in rows : RowLess(o, m)}) = i - 1]

\* ORDER BY turn_index DESC, created_at DESC: the row at position i is the
\* one with i - 1 rows above it.
OrderByDesc(rows) ==
    [i \in 1..Cardinality(rows) |->
        CHOOSE m \in rows : Cardinality({o \in rows : RowLess(m, o)}) = i - 1]

\* .limit(n)
Limit(seq, n) == SubSeq(seq, 1, IF Len(seq) < n THEN Len(seq) ELSE n)

\* list(reversed(seq))
Reverse(seq) == [i \in 1..Len(seq) |-> seq[Len(seq) + 1 - i]]

\* A variant without the WHERE clause.
SessionRowsEverySession(table, s) == table

\* WHERE session_id = s
SessionRows(table, s) == {m \in table : m.session_id = s}

\* The rows get_memory_context selects, after the reversal.
SelectMemoryRows(table, s, n) ==
    Reverse(Limit(OrderByDesc(SessionRows(table, s)), n * 2))

\* The role/content dictionaries built from the rows.
ToContext(rows) ==
    [i \in 1..Len(rows) |-> [role |-> rows[i].role, content |-> rows[i].content]]

\* A variant that counts the rows of the session instead of taking the maximum.
MaxTurnOrZeroCountsRows(table, s) == Cardinality(SessionRows(table, s))

\* A variant that takes the maximum over the completed exchanges only (the
\* turns that have an assistant message).
MaxTurnOrZeroCompleted(table, s) ==
    LET done == {m \in SessionRows(table, s) : m.role = "assistant"} IN
    IF done = {} THEN 0
    ELSE CHOOSE t \in {m.turn_index : m \in done} : \A m \in done : m.turn_index <= t

\* select max(turn_index) where session_id = s; NULL becomes 0 by "or 0"
MaxTurnOrZero(table, s) ==
    IF SessionRows(table, s) = {} THEN 0
    ELSE CHOOSE t \in {m.turn_index : m \in SessionRows(table, s)} :
            \A m \in SessionRows(table, s) : m.turn_index <= t

\* Message(session_id, role, content, turn_index, created_at = utcnow())
NewMessage(s, role, content, turn) ==
    [session_id |-> s, role |-> role, content |-> content, turn_index |-> turn,
     created_at |-> now]

\* ------------------------------------------------------------ turn
\* A caller enters process_message(s, u).
Enter(p, s, u) ==
    /\ pc[p] = "idle"
    /\ \A q \in Procs : q < p => pc[q] # "idle"
    /\ started = 0 => s = FirstSession
    /\ started < MaxCalls
    /\ pc' = [pc EXCEPT ![p] = "next_turn"]
    /\ session_id' = [session_id EXCEPT ![p] = s]
    /\ user_message' = [user_message EXCEPT ![p] = u]
    /\ started' = started + 1
    /\ result' = [result EXCEPT ![p] = NoResult]
    /\ UNCHANGED << messages, now, max_exchanges, turn_index, user_msg,
                    memory_rows, memory_context, llm_response, collab, pending, cleared >>

Start(p, s, u) == Enter(p, s, u) /\ UNCHANGED << calls, before >>

\* The same, observed: the sequential specification counts the calls of a
\* session and records the table the call found.
StartObserved(p, s, u) ==
    /\ \A q \in Procs : pc[q] = "idle"
    /\ Enter(p, s, u)
    /\ calls' = [calls EXCEPT ![s] = @ + 1]
    /\ before' = [before EXCEPT ![p] = messages]

\* turn_index = await self._get_next_turn_index(session_id)
GetNextTurnIndex(p) ==
    /\ pc[p] = "next_turn"
    /\ turn_index' = [turn_index EXCEPT ![p] = MaxTurnOrZero(messages, session_id[p]) + 1]
    /\ pc' = [pc EXCEPT ![p] = "save_user"]
    /\ UNCHANGED << messages, now, max_exchanges, session_id, user_message,
                    user_msg, memory_rows, memory_context, llm_response, collab, pending,
                    result, started, cleared, calls, before >>

\* The max-turn query raises: control passes to the except clause.
GetNextTurnIndexFail(p) ==
    /\ pc[p] = "next_turn"
    /\ pc' = [pc EXCEPT ![p] = "except"]
    /\ UNCHANGED << messages, now, max_exchanges, session_id, user_message,
                    turn_index, user_msg, memory_rows, memory_context,
                    llm_response, collab, pending, result, started, cleared, calls, before >>

\* A variant that replaces the rows of the same session and turn instead of
\* appending (an upsert keyed by session and turn).
SaveOkUpsert(p, role, content, next) ==
    LET message == NewMessage(session_id[p], role, content, turn_index[p]) IN
    /\ messages' =
            {m \in messages :
                ~(m.session_id = session_id[p] /\ m.turn_index = turn_index[p])}
            \cup {message}
    /\ pending' = [pending EXCEPT ![p] = {}]
    /\ now' = now + 1
    /\ user_msg' = IF role = "user" THEN [user_msg EXCEPT ![p] = message] ELSE user_msg
    /\ pc' = [pc EXCEPT ![p] = next]

\* _save_message: add, commit, refresh.  The commit writes the session's
\* pending rows to the table.
SaveOk(p, role, content, next) ==
    LET message == NewMessage(session_id[p], role, content, turn_index[p]) IN
    /\ messages' = messages \cup pending[p] \cup {message}
    /\ pending' = [pending EXCEPT ![p] = {}]
    /\ now' = now + 1
    /\ user_msg' = IF role = "user" THEN [user_msg EXCEPT ![p] = message] ELSE user_msg
    /\ pc' = [pc EXCEPT ![p] = next]

\* _save_message whose commit raises: the row stays pending in the session
\* and control passes to the except clause.
SaveFail(p, role, content) ==
    LET message == NewMessage(session_id[p], role, content, turn_index[p]) IN
    /\ pending' = [pending EXCEPT ![p] = @ \cup {message}]
    /\ pc' = [pc EXCEPT ![p] = "except"]
    /\ UNCHANGED << messages, now, user_msg >>

\* A variant in which the table refuses a second user row for a session and
\* turn index (a unique constraint).
SaveUserMessageUnique(p) ==
    /\ pc[p] = "save_user"
    /\ ~ \E m \in messages :
            /\ m.session_id = session_id[p]
            /\ m.role = "user"
            /\ m.turn_index = turn_index[p]
    /\ SaveOk(p, "user", user_message[p], "get_memory")
    /\ UNCHANGED << max_exchanges, session_id, user_message, turn_index,
                    memory_rows, memory_context, llm_response, collab, result, started,
                    cleared, calls, before >>

\* user_msg = await self._save_message(role="user", ...)
SaveUserMessage(p) ==
    /\ pc[p] = "save_user"
    /\ SaveOk(p, "user", user_message[p], "get_memory")
    /\ UNCHANGED << max_exchanges, session_id, user_message, turn_index,
                    memory_rows, memory_context, llm_response, collab, result, started,
                    cleared, calls, before >>

SaveUserMessageFail(p) ==
    /\ pc[p] = "save_user"
    /\ SaveFail(p, "user", user_message[p])
    /\ UNCHANGED << max_exchanges, session_id, user_message, turn_index,
                    memory_rows, memory_context, llm_response, collab, result, started,
                    cleared, calls, before >>

\* memory_context = await self.memory_manager.get_memory_context(session_id)
GetMemoryContext(p) ==
    LET rows == SelectMemoryRows(messages, session_id[p], max_exchanges) IN
    /\ pc[p] = "get_memory"
    /\ memory_rows' = [memory_rows EXCEPT ![p] = rows]
    /\ memory_context' = [memory_context EXCEPT ![p] = ToContext(rows)]
    /\ pc' = [pc EXCEPT ![p] = "invoke"]
    /\ UNCHANGED << messages, now, max_exchanges, session_id, user_message,
                    turn_index, user_msg, llm_response, collab, pending, result, started,
                    cleared, calls, before >>

\* The memory query raises: get_memory_context logs and returns [].
GetMemoryContextFail(p) ==
    /\ pc[p] = "get_memory"
    /\ memory_rows' = [memory_rows EXCEPT ![p] = <<>>]
    /\ memory_context' = [memory_context EXCEPT ![p] = <<>>]
    /\ pc' = [pc EXCEPT ![p] = "invoke"]
    /\ UNCHANGED << messages, now, max_exchanges, session_id, user_message,
                    turn_index, user_msg, llm_response, collab, pending, result, started,
                    cleared, calls, before >>

\* llm_response = await self.chat_chain.invoke(...)
\* db is the Reference Data the tools read, backend what the text-generation
\* backend does when it is called.
Invoke(p, db, backend) ==
    /\ pc[p] = "invoke"
    /\ llm_response' = [llm_response EXCEPT ![p] =
            ChatChainInvoke(user_message[p], memory_context[p], db, backend)]
    /\ collab' = [collab EXCEPT ![p] =
            [db |-> db, backend |-> backend,
             backend_calls |-> BackendCalls(user_message[p], db, backend),
             tool_invocations |-> ToolInvocations(user_message[p], db)]]
    /\ pc' = [pc EXCEPT ![p] = "save_assistant"]
    /\ UNCHANGED << messages, now, max_exchanges, session_id, user_message,
                    turn_index, user_msg, memory_rows, memory_context, pending,
                    result, started, cleared, calls, before >>

\* assistant_msg = await self._save_message(role="assistant", ...), the no-op
\* update_memory, and return ChatResponse(...)
SaveAssistantMessage(p) ==
    /\ pc[p] = "save_assistant"
    /\ SaveOk(p, "assistant", llm_response[p].message, "done")
    /\ result' = [result EXCEPT ![p] =
            [status |-> "ok", message |-> llm_response[p].message,
             turn_index |-> turn_index[p],
             tool_calls |-> llm_response[p].tool_calls]]
    /\ UNCHANGED << max_exchanges, session_id, user_message, turn_index,
                    memory_rows, memory_context, llm_response, collab, started, cleared,
                    calls, before >>

SaveAssistantMessageFail(p) ==
    /\ pc[p] = "save_assistant"
    /\ SaveFail(p, "assistant", llm_response[p].message)
    /\ UNCHANGED << max_exchanges, session_id, user_message, turn_index,
                    memory_rows, memory_context, llm_response, collab, result, started,
                    cleared, calls, before >>

\* await self.db_session.rollback(): drops what the session has not committed.
Rollback(p) == [pending EXCEPT ![p] = {}]

\* except Exception: rollback, log, raise
Except(p) ==
    /\ pc[p] = "except"
    /\ pending' = Rollback(p)
    /\ pc' = [pc EXCEPT ![p] = "raised"]
    /\ result' = [result EXCEPT ![p] = [NoResult EXCEPT !.status = "raised"]]
    /\ UNCHANGED << messages, now, max_exchanges, session_id, user_message,
                    turn_index, user_msg, memory_rows, memory_context,
                    llm_response, collab, started, cleared, calls, before >>

\* The caller has the outcome; the request and its locals are gone.
Finish(p) ==
    /\ pc[p] \in {"done", "raised"}
    /\ pc' = [pc EXCEPT ![p] = "idle"]
    /\ session_id' = [session_id EXCEPT ![p] = ""]
    /\ user_message' = [user_message EXCEPT ![p] = <<>>]
    /\ turn_index' = [turn_index EXCEPT ![p] = 0]
    /\ user_msg' = [user_msg EXCEPT ![p] = NoMessage]
    /\ memory_rows' = [memory_rows EXCEPT ![p] = <<>>]
    /\ memory_context' = [memory_context EXCEPT ![p] = <<>>]
    /\ llm_response' = [llm_response EXCEPT ![p] = NoResponse]
    /\ collab' = [collab EXCEPT ![p] = NoCollab]
    /\ result' = [result EXCEPT ![p] = NoResult]
    /\ before' = [before EXCEPT ![p] = {}]
    /\ UNCHANGED << messages, now, max_exchanges, pending, started, cleared, calls >>

\* A variant whose delete has no WHERE clause.
DeleteEverySession(s) ==
    /\ cleared < MaxClears
    /\ messages' = {}
    /\ cleared' = cleared + 1
    /\ UNCHANGED << now, max_exchanges, pc, session_id, user_message, turn_index,
                    user_msg, memory_rows, memory_context, llm_response, collab,
                    pending, result, started, before >>

\* MemoryManager.clear_memory(s): delete where session_id = s, commit.
Delete(s) ==
    /\ cleared < MaxClears
    /\ messages' = messages \ SessionRows(messages, s)
    /\ cleared' = cleared + 1
    /\ UNCHANGED << now, max_exchanges, pc, session_id, user_message, turn_index,
                    user_msg, memory_rows, memory_context, llm_response, collab, pending,
                    result, started, before >>

ClearMemory(s) == Delete(s) /\ UNCHANGED calls

\* The same, observed: the session is empty again.
ClearMemoryObserved(s) ==
    /\ \A q \in Procs : pc[q] = "idle"
    /\ Delete(s)
    /\ calls' = [calls EXCEPT ![s] = 0]

Init ==
    /\ messages = {}
    /\ now = 1
    /\ max_exchanges \in Windows
    /\ pc = [p \in Procs |-> "idle"]
    /\ session_id = [p \in Procs |-> ""]
    /\ user_message = [p \in Procs |-> <<>>]
    /\ turn_index = [p \in Procs |-> 0]
    /\ user_msg = [p \in Procs |-> NoMessage]
    /\ memory_rows = [p \in Procs |-> <<>>]
    /\ memory_context = [p \in Procs |-> <<>>]
    /\ llm_response = [p \in Procs |-> NoResponse]
    /\ collab = [p \in Procs |-> NoCollab]
    /\ pending = [p \in Procs |-> {}]
    /\ result = [p \in Procs |-> NoResult]
    /\ started = 0
    /\ cleared = 0
    /\ calls = [s \in Sessions |-> 0]
    /\ before = [p \in Procs |-> {}]
\* ------------------------------------------------------------ inputs
UtterOrder ==
    <<"Di", " ", "mana", " ", "pesanan", " ", "saya", "?", " ", "ID", ":", " ",
      "ORD", "123">>

UtterOrderNoId == <<"status", " ", "pesanan", " ", "saya">>

UtterProduct == <<"Apa", " ", "kelebihan", " ", "laptop", " ", "gaming", " ", "X", "?">>

UtterWarranty == <<"Bagaimana", " ", "cara", " ", "klaim", " ", "garansi", "?">>

UtterChat == <<"Halo">>

\* Trigger words of two intents in one utterance.
UtterOrderProduct ==
    <<"Status", " ", "pesanan", " ", "laptop", " ", "ORD", "123", "?">>

UtterOrderProductNoId == <<"harga", " ", "pesanan", " ", "saya">>

UtterOrderWarrantyNoId == <<"status", " ", "klaim", " ", "garansi">>

\* The product keyword is the last word of the utterance.
UtterProductBare == <<"Berapa", " ", "harga", " ", "laptop", "?">>

\* A product trigger without any of the keywords a name is looked for after.
UtterProductNoName == <<"Berapa", " ", "harga", "?">>

Utterances ==
    {UtterOrder, UtterOrderNoId, UtterProduct, UtterWarranty, UtterChat,
     UtterOrderProduct, UtterOrderProductNoId, UtterOrderWarrantyNoId,
     UtterProductBare, UtterProductNoName}

OrderShipped ==
    [id |-> <<"ORD", "123">>, status |-> "shipped", carrier |-> "JNE",
     tracking_number |-> "JNE789", eta_date |-> "18 September 2025",
     last_update_at |-> "16 September 2025 pukul 14:30"]

\* Order ORD123 in every status (the five mapped codes and one that is not
\* mapped), with and without carrier, tracking number and ETA.
OrderVariants ==
    { [OrderShipped EXCEPT !.status = st, !.carrier = c, !.tracking_number = tr,
                           !.eta_date = eta] :
        st \in {"pending", "confirmed", "shipped", "delivered", "cancelled", "returned"},
        c \in {"", "JNE"}, tr \in {"", "JNE789"}, eta \in {"", "18 September 2025"} }

ProductX ==
    [name |-> <<"Laptop", " ", "Gaming", " ", "X", " ", "Pro">>,
     features |-> "Processor Intel i7-12700H, RAM 16GB DDR4", price |-> 18500000,
     stock |-> {5}]

PolicyPlain ==
    [type |-> "warranty", content_markdown |-> <<"Garansi 1 tahun.">>]

\* A stored policy that already ends with its own summary line.
PolicySummarised ==
    [type |-> "warranty",
     content_markdown |->
        <<"Garansi 1 tahun.", NL, NL, RINGKAS, " ", "Garansi berlaku setahun.">>]

\* A stored policy that ends with the bare marker.
PolicyMarkerLast ==
    [type |-> "warranty", content_markdown |-> <<"Garansi 1 tahun.", NL, RINGKAS>>]

DbSeeded ==
    [orders |-> {OrderShipped}, products |-> <<ProductX>>, policies |-> {}, fault |-> FALSE]

Databases ==
    { DbSeeded,
      [DbSeeded EXCEPT !.policies = {PolicyPlain}],
      [DbSeeded EXCEPT !.policies = {PolicySummarised}],
      [DbSeeded EXCEPT !.policies = {PolicyMarkerLast}],
      [DbSeeded EXCEPT !.policies = {PolicyPlain, PolicySummarised}],
      [DbSeeded EXCEPT !.orders = {}, !.products = <<>>],
      [DbSeeded EXCEPT !.fault = TRUE] }
    \cup {[DbSeeded EXCEPT !.orders = {o}] : o \in OrderVariants}

BackendRaises == [kind |-> "raise", text |-> <<>>]

TextPlain == <<"Halo, ada yang bisa saya bantu?">>

TextSummarised == <<"Halo!", NL, NL, RINGKAS, " ", "Sapaan dibalas.">>

\* The marker is in the text, but not at the start of its last line.
TextMarkerFirst == <<RINGKAS, " ", "Sapaan dibalas.", NL, NL, "Ada lagi?">>

\* The text ends with the bare marker on a line of its own.
TextMarkerAlone == <<"Halo!", NL, RINGKAS>>

Backends ==
    {BackendRaises} \cup
    {[kind |-> "text", text |-> t] :
        t \in {TextPlain, TextSummarised, TextMarkerFirst, TextMarkerAlone}}

\* The inputs of the specifications that run several turns.
FewUtterances == {UtterOrder, UtterChat}

FewBackends == {BackendRaises, [kind |-> "text", text |-> TextPlain]}

\* ------------------------------------------------------------ specifications
\* Concurrent requests on shared sessions; any Message Log operation may fail.
Next ==
    \/ \E p \in Procs, s \in Sessions : Start(p, s, UtterChat)
    \/ \E p \in Procs : GetNextTurnIndex(p)
    \/ \E p \in Procs : GetNextTurnIndexFail(p)
    \/ \E p \in Procs : SaveUserMessage(p)
    \/ \E p \in Procs : SaveUserMessageFail(p)
    \/ \E p \in Procs : GetMemoryContext(p)
    \/ \E p \in Procs : GetMemoryContextFail(p)
    \/ \E p \in Procs : Invoke(p, DbSeeded, BackendRaises)
    \/ \E p \in Procs : SaveAssistantMessage(p)
    \/ \E p \in Procs : SaveAssistantMessageFail(p)
    \/ \E p \in Procs : Except(p)
    \/ \E p \in Procs : Finish(p)

Spec == Init /\ [][Next]_vars

\* Sequential use in which any Message Log operation may fail.
FailNext ==
    \/ \E p \in Procs, s \in Sessions : StartObserved(p, s, UtterChat)
    \/ \E p \in Procs : GetNextTurnIndex(p)
    \/ \E p \in Procs : GetNextTurnIndexFail(p)
    \/ \E p \in Procs : SaveUserMessage(p)
    \/ \E p \in Procs : SaveUserMessageFail(p)
    \/ \E p \in Procs : GetMemoryContext(p)
    \/ \E p \in Procs : GetMemoryContextFail(p)
    \/ \E p \in Procs, b \in FewBackends : Invoke(p, DbSeeded, b)
    \/ \E p \in Procs : SaveAssistantMessage(p)
    \/ \E p \in Procs : SaveAssistantMessageFail(p)
    \/ \E p \in Procs : Except(p)
    \/ \E p \in Procs : Finish(p)

FailSpec == Init /\ [][FailNext]_vars

\* Sequential use of one session in which any Message Log operation may
\* fail, under the proviso that whatever a call awaits comes back.
LiveNext ==
    \/ \E p \in Procs : StartObserved(p, FirstSession, UtterChat)
    \/ \E p \in Procs : GetNextTurnIndex(p)
    \/ \E p \in Procs : GetNextTurnIndexFail(p)
    \/ \E p \in Procs : SaveUserMessage(p)
    \/ \E p \in Procs : SaveUserMessageFail(p)
    \/ \E p \in Procs : GetMemoryContext(p)
    \/ \E p \in Procs : GetMemoryContextFail(p)
    \/ \E p \in Procs, b \in FewBackends : Invoke(p, DbSeeded, b)
    \/ \E p \in Procs : SaveAssistantMessage(p)
    \/ \E p \in Procs : SaveAssistantMessageFail(p)
    \/ \E p \in Procs : Except(p)
    \/ \E p \in Procs : Finish(p)

\* Every Message Log operation a call awaits returns or raises, and the
\* except clause runs.  At most one call is running at a time, so one
\* condition over all request slots is the condition on the running call.
MessageLogReturns ==
    WF_vars(\E p \in Procs :
                \/ GetNextTurnIndex(p) \/ GetNextTurnIndexFail(p)
                \/ SaveUserMessage(p) \/ SaveUserMessageFail(p)
                \/ GetMemoryContext(p) \/ GetMemoryContextFail(p)
                \/ SaveAssistantMessage(p) \/ SaveAssistantMessageFail(p)
                \/ Except(p))

\* A variant without the proviso on the chain: the awaited backend call has
\* no timeout and may never come back.
BackendMayHang == TRUE

\* The lookups and the backend call that invoke awaits return or raise.
BackendReturns ==
    WF_vars(\E p \in Procs, b \in FewBackends : Invoke(p, DbSeeded, b))

LiveSpec == Init /\ [][LiveNext]_vars /\ MessageLogReturns /\ BackendReturns

\* Sequential single-threaded use in which every call succeeds: a call or a
\* clear_memory starts only when no call is running, and nothing fails.
SeqNext ==
    \/ \E p \in Procs, s \in Sessions, u \in FewUtterances : StartObserved(p, s, u)
    \/ \E p \in Procs : GetNextTurnIndex(p)
    \/ \E p \in Procs : SaveUserMessage(p)
    \/ \E p \in Procs : GetMemoryContext(p)
    \/ \E p \in Procs, b \in FewBackends : Invoke(p, DbSeeded, b)
    \/ \E p \in Procs : SaveAssistantMessage(p)
    \/ \E p \in Procs : Finish(p)
    \/ \E s \in Sessions : ClearMemoryObserved(s)

SeqSpec == Init /\ [][SeqNext]_vars

\* Concurrent requests and clear_memory calls in any interleaving; nothing
\* fails.  The clear_memory calls multiply the interleavings, so a run has
\* one request fewer than in the other specifications.
RaceNext ==
    \/ \E p \in Procs, s \in Sessions : started + 1 < MaxCalls /\ Start(p, s, UtterChat)
    \/ \E p \in Procs : GetNextTurnIndex(p)
    \/ \E p \in Procs : SaveUserMessage(p)
    \/ \E p \in Procs : GetMemoryContext(p)
    \/ \E p \in Procs : Invoke(p, DbSeeded, BackendRaises)
    \/ \E p \in Procs : SaveAssistantMessage(p)
    \/ \E p \in Procs : Finish(p)
    \/ \E s \in Sessions : ClearMemory(s)

RaceSpec == Init /\ [][RaceNext]_vars

\* One turn, over every utterance, Reference Data state and backend outcome.
ChainNext ==
    \/ \E p \in Procs, s \in Sessions, u \in Utterances :
            started = 0 /\ Start(p, s, u)
    \/ \E p \in Procs : GetNextTurnIndex(p)
    \/ \E p \in Procs : SaveUserMessage(p)
    \/ \E p \in Procs : GetMemoryContext(p)
    \/ \E p \in Procs, db \in Databases, b \in Backends : Invoke(p, db, b)
    \/ \E p \in Procs : SaveAssistantMessage(p)
    \/ \E p \in Procs : Finish(p)

ChainSpec == Init /\ [][ChainNext]_vars
\* ------------------------------------------------------------ claims
AfterMemory == {"invoke", "save_assistant", "done"}

\* C1: in sequential use where every call succeeds, the n-th call on a session
\* returns turn index n (1 on an empty session, one more on each later call).
C1_TurnIndexCountsCalls ==
    \A p \in Procs :
        pc[p] = "done" => result[p].turn_index = calls[session_id[p]]

C1_Witness ==
    \E p \in Procs : pc[p] = "done" /\ result[p].turn_index = 3

\* C2: a successful call appends exactly two messages to the session, the user
\* message with the utterance and then the assistant message with the returned
\* reply, both with the returned turn index, and leaves every earlier message
\* as it was.
C2_TwoMessagesAppended ==
    \A p \in Procs :
        pc[p] = "done" =>
            LET new == messages \ before[p] IN
            /\ before[p] \subseteq messages
            /\ \E u \in new, a \in new :
                /\ new = {u, a}
                /\ u.role = "user" /\ a.role = "assistant"
                /\ u.content = user_message[p]
                /\ a.content = result[p].message
                /\ u.session_id = session_id[p] /\ a.session_id = session_id[p]
                /\ u.turn_index = result[p].turn_index
                /\ a.turn_index = result[p].turn_index
                /\ u.created_at < a.created_at

C2_Witness ==
    \E p \in Procs : pc[p] = "done" /\ before[p] # {} /\ result[p].status = "ok"

\* C3: every reply ChatChain.invoke returns ends with a line that starts with
\* "Ringkas:", on the tool path, the generated-text path and the fallback path.
C3_ReplyEndsWithRingkasLine ==
    \A p \in Procs :
        pc[p] = "save_assistant" => EndsWithRingkasLine(llm_response[p].message)

\* C4: the memory excerpt of a turn holds only messages of prior turns, never
\* the user message the same call has just saved.
C4_ExcerptIsPreInsertion ==
    \A p \in Procs :
        pc[p] \in AfterMemory =>
            \A i \in 1..Len(memory_rows[p]) :
                /\ memory_rows[p][i] # user_msg[p]
                /\ memory_rows[p][i].turn_index < turn_index[p]

\* C5: for every state of the table and every session, get_memory_context
\* returns at most 2 * max_exchanges rows of the session, and they are its most
\* recent rows in the (turn index, creation time) order.
C5_ExcerptBoundedMostRecent ==
    \A s \in Sessions :
        LET rows == SelectMemoryRows(messages, s, max_exchanges)
            got == {rows[i] : i \in 1..Len(rows)}
            all == SessionRows(messages, s)
        IN /\ Len(rows) <= 2 * max_exchanges
           /\ Cardinality(got) = Len(rows)
           /\ got \subseteq all
           /\ \A m \in got, o \in all \ got : RowLess(o, m)
           /\ got # all => Len(rows) = 2 * max_exchanges

C5_Witness ==
    \E s \in Sessions :
        /\ Cardinality(SessionRows(messages, s)) > 2 * max_exchanges
        /\ Len(SelectMemoryRows(messages, s, max_exchanges)) = 2 * max_exchanges

\* C6: the memory excerpt is in chronological order, oldest creation time
\* first, in every reachable state of the table, concurrent turns included.
C6_ExcerptChronological ==
    \A s \in Sessions :
        LET rows == SelectMemoryRows(messages, s, max_exchanges) IN
        \A i, j \in 1..Len(rows) :
            i < j => rows[i].created_at < rows[j].created_at

\* C7: on the second and every later sequential turn of a session, whatever
\* the configured window (at least 1), the excerpt handed to the synthesizer
\* holds the user and the assistant message of the preceding exchange.
C7_ExcerptHasPreviousExchange ==
    \A p \in Procs :
        (pc[p] \in AfterMemory /\ calls[session_id[p]] >= 2) =>
            \A r \in {"user", "assistant"} :
                \E i \in 1..Len(memory_rows[p]) :
                    /\ memory_rows[p][i].role = r
                    /\ memory_rows[p][i].turn_index + 1 = turn_index[p]

\* C8: nothing stops two concurrent calls on a session from using the same
\* turn index: a call may read the maximum while another call on the session
\* sits between its read and its write, and a call holding a turn index may
\* write its user message although the session already has a user message
\* with that index.
C8_CollidingTurnNotPrevented ==
    \A p \in Procs :
        /\ (pc[p] = "next_turn"
            /\ \E q \in Procs \ {p} :
                    pc[q] = "save_user" /\ session_id[q] = session_id[p])
           => ENABLED GetNextTurnIndex(p)
        /\ (pc[p] = "save_user"
            /\ \E m \in messages :
                    /\ m.session_id = session_id[p]
                    /\ m.role = "user"
                    /\ m.turn_index = turn_index[p])
           => ENABLED SaveUserMessage(p)

C8_Witness ==
    \E m1 \in messages, m2 \in messages :
        /\ m1 # m2
        /\ m1.session_id = m2.session_id
        /\ m1.role = "user" /\ m2.role = "user"
        /\ m1.turn_index = m2.turn_index

\* C9: within a session, turn indices never decrease in creation order, in
\* sequential and in concurrent use.
C9_TurnIndexNonDecreasing ==
    \A m1 \in messages, m2 \in messages :
        (m1.session_id = m2.session_id /\ m1.created_at < m2.created_at)
            => m1.turn_index <= m2.turn_index

\* C10: when a step after the user-message write fails, the turn is rolled
\* back: the session holds no message of the failed turn once the failure has
\* been raised to the caller.
C10_FailedTurnLeavesNoMessage ==
    \A p \in Procs :
        (pc[p] = "raised" /\ user_msg[p] # NoMessage) =>
            ~ \E m \in messages :
                m.session_id = session_id[p] /\ m.turn_index = turn_index[p]

\* C11: every persistence failure of a turn, a Message Log write or a Message
\* Log read (the max-turn query or the memory query), takes the call to its
\* except clause, from where it is raised to the caller; none lets the turn
\* go on to return a result.
C11_PersistenceFailureIsFatal ==
    [][\A p \in Procs :
          ( \/ GetNextTurnIndexFail(p)
            \/ SaveUserMessageFail(p)
            \/ GetMemoryContextFail(p)
            \/ SaveAssistantMessageFail(p) ) => pc'[p] = "except"]_vars

\* C12: when the backend raises in a turn where no tool produced output, the
\* reply is FALLBACK_PROMPT unchanged and tool_calls is empty; the call does
\* not raise: it returns that reply, with the user message and the assistant
\* message of the turn in the table.
C12_BackendFailureGivesFallback ==
    \A p \in Procs :
        ( /\ pc[p] \in {"save_assistant", "done"}
          /\ collab[p].backend.kind = "raise"
          /\ Dispatch(user_message[p], collab[p].db)[2] = <<>> )
        => /\ llm_response[p] = [message |-> FALLBACK_PROMPT, tool_calls |-> <<>>]
           /\ pc[p] = "save_assistant" => ENABLED SaveAssistantMessage(p)
           /\ pc[p] = "done" =>
                /\ result[p].status = "ok"
                /\ result[p].message = FALLBACK_PROMPT
                /\ result[p].tool_calls = <<>>
                /\ \E u \in messages, a \in messages :
                    /\ u.session_id = session_id[p] /\ a.session_id = session_id[p]
                    /\ u.turn_index = turn_index[p] /\ a.turn_index = turn_index[p]
                    /\ u.role = "user" /\ u.content = user_message[p]
                    /\ a.role = "assistant" /\ a.content = FALLBACK_PROMPT

C12_Witness ==
    \E p \in Procs :
        /\ pc[p] = "done"
        /\ collab[p].backend.kind = "raise"
        /\ result[p].message = FALLBACK_PROMPT
        /\ result[p].tool_calls = <<>>

\* C13: when the Reference Data lookup of the tool a turn calls fails (the
\* query raises, or the warranty query finds several rows), the tool's output
\* is its apology text, the tool's name is reported in tool_calls, and the
\* call does not raise: it returns a reply that starts with the apology.
LookupApology ==
    [get_order_status |-> "Maaf, terjadi kesalahan saat mencari pesanan",
     get_product_info |-> "Maaf, terjadi kesalahan saat mencari produk",
     get_warranty_policy |-> "Maaf, terjadi kesalahan saat mengambil informasi garansi"]

ToolRouted(message) ==
    IF ShouldCallOrderTool(message)
    THEN IF ExtractOrderId(message) # <<>> THEN "get_order_status" ELSE ""
    ELSE IF ShouldCallProductTool(message)
    THEN IF ExtractProductName(message) # <<>> THEN "get_product_info" ELSE ""
    ELSE IF ShouldCallWarrantyTool(message) THEN "get_warranty_policy" ELSE ""

LookupFails(tool, db) ==
    \/ db.fault
    \/ /\ tool = "get_warranty_policy"
       /\ Cardinality({q \in db.policies : q.type = "warranty"}) > 1

C13_LookupFailureGivesApology ==
    \A p \in Procs :
        LET tool == ToolRouted(user_message[p]) IN
        ( /\ pc[p] \in {"save_assistant", "done"}
          /\ tool # ""
          /\ LookupFails(tool, collab[p].db) )
        => /\ llm_response[p].tool_calls = <<tool>>
           /\ Head(llm_response[p].message) = LookupApology[tool]
           /\ pc[p] = "save_assistant" => ENABLED SaveAssistantMessage(p)
           /\ pc[p] = "done" =>
                /\ result[p].status = "ok"
                /\ result[p].tool_calls = <<tool>>
                /\ Head(result[p].message) = LookupApology[tool]

C13_Witness ==
    \E p \in Procs :
        /\ pc[p] = "done"
        /\ collab[p].db.fault
        /\ result[p].status = "ok"
        /\ result[p].tool_calls = <<"get_product_info">>
        /\ Head(result[p].message) = LookupApology["get_product_info"]

\* C14: a turn invokes at most one tool: tool_calls is empty or holds exactly
\* one of the three tool names, there is one tool result exactly when there is
\* one tool call, and the name reported is the one of the tool whose result
\* the turn holds; the caller gets the same list.
ToolNames == {"get_order_status", "get_product_info", "get_warranty_policy"}

ResultKey ==
    [get_order_status |-> "order_status", get_product_info |-> "product_info",
     get_warranty_policy |-> "warranty_policy"]

C14_AtMostOneTool ==
    \A p \in Procs :
        pc[p] \in {"save_assistant", "done"} =>
            LET tool_calls == llm_response[p].tool_calls
                tool_results == Dispatch(user_message[p], collab[p].db)[2]
            IN /\ Len(tool_calls) <= 1
               /\ \A i \in 1..Len(tool_calls) : tool_calls[i] \in ToolNames
               /\ Len(tool_results) = Len(tool_calls)
               /\ tool_calls # <<>> => tool_results[1][1] = ResultKey[tool_calls[1]]
               /\ pc[p] = "done" => result[p].tool_calls = tool_calls

C14_Witness ==
    \E p \in Procs :
        /\ pc[p] = "done"
        /\ ShouldCallOrderTool(user_message[p])
        /\ ShouldCallProductTool(user_message[p])
        /\ ExtractProductName(user_message[p]) # <<>>
        /\ result[p].tool_calls = <<"get_order_status">>

\* C15: an utterance with a trigger of the order intent and a trigger of the
\* product intent resolves to order status: the product tool is not invoked,
\* and when an order id can be extracted tool_calls is [get_order_status].
C15_OrderBeforeProduct ==
    \A p \in Procs :
        ( /\ pc[p] \in {"save_assistant", "done"}
          /\ AnyKeyword(OrderKeywords, user_message[p])
          /\ AnyKeyword(ProductKeywords, user_message[p]) )
        => LET tool_results == Dispatch(user_message[p], collab[p].db)[2] IN
           /\ \A i \in 1..Len(tool_results) : tool_results[i][1] # "product_info"
           /\ \A i \in 1..Len(llm_response[p].tool_calls) :
                llm_response[p].tool_calls[i] # "get_product_info"
           /\ ExtractOrderId(user_message[p]) # <<>> =>
                llm_response[p].tool_calls = <<"get_order_status">>

C15_Witness ==
    \E p \in Procs :
        /\ pc[p] = "save_assistant"
        /\ AnyKeyword(OrderKeywords, user_message[p])
        /\ AnyKeyword(ProductKeywords, user_message[p])
        /\ ExtractOrderId(user_message[p]) # <<>>
        /\ llm_response[p].tool_calls = <<"get_order_status">>

\* C16: when the order intent matches and no order id can be extracted, the
\* turn invokes no tool, the product and the warranty tool included even if
\* their triggers are in the utterance: tool_calls is empty and the reply is
\* the one of the generative path.
C16_NoOrderIdNoTool ==
    \A p \in Procs :
        ( /\ pc[p] \in {"save_assistant", "done"}
          /\ AnyKeyword(OrderKeywords, user_message[p])
          /\ ExtractOrderId(user_message[p]) = <<>> )
        => /\ Dispatch(user_message[p], collab[p].db)[2] = <<>>
           /\ llm_response[p].tool_calls = <<>>
           /\ llm_response[p].message =
                EnsureRingkas(IF collab[p].backend.kind = "raise"
                              THEN FALLBACK_PROMPT ELSE collab[p].backend.text)

C16_Witness ==
    \E p \in Procs :
        /\ pc[p] = "done"
        /\ AnyKeyword(OrderKeywords, user_message[p])
        /\ ExtractOrderId(user_message[p]) = <<>>
        /\ AnyKeyword(WarrantyKeywords, user_message[p])
        /\ result[p].tool_calls = <<>>
        /\ collab[p].backend.kind = "text"

\* C17: clear_memory(s) removes every message of session s and leaves the
\* messages of every other session as they were, and a sequential call that
\* finds its session without messages, as the next call on a cleared session
\* does, returns turn index 1.
C17_ClearMemoryResetsSession ==
    /\ [][\A s \in Sessions :
            ClearMemoryObserved(s) =>
                /\ SessionRows(messages', s) = {}
                /\ \A o \in Sessions \ {s} :
                        SessionRows(messages', o) = SessionRows(messages, o)]_vars
    /\ [](\A p \in Procs :
            (pc[p] = "done" /\ SessionRows(before[p], session_id[p]) = {})
                => result[p].turn_index = 1)

\* The second call of a run, on the session of the first call, found the
\* table empty: the rows of the first call were cleared in between.
C17_Witness ==
    \E p \in Procs :
        /\ pc[p] = "done"
        /\ session_id[p] = FirstSession
        /\ started = 2
        /\ cleared = 1
        /\ now = 5
        /\ before[p] = {}
        /\ result[p].turn_index = 1

\* C18: the message for an order that is found names the carrier and the
\* tracking number exactly when the order has both, and has an ETA phrase
\* exactly when the order has an ETA and its status is confirmed or shipped
\* (so none for delivered, pending or cancelled); a status outside the five
\* mapped codes appears as it is stored.
MappedStatus == {"pending", "confirmed", "shipped", "delivered", "cancelled"}

C18_OrderMessageParts ==
    \A p \in Procs :
        ( /\ pc[p] \in {"save_assistant", "done"}
          /\ llm_response[p].tool_calls = <<"get_order_status">>
          /\ ~collab[p].db.fault )
        => \A o \in collab[p].db.orders :
            o.id = ExtractOrderId(user_message[p]) =>
                LET text == llm_response[p].message
                    both == o.carrier # "" /\ o.tracking_number # ""
                IN /\ both <=> Contains(text, <<"dengan nomor resi">>)
                   /\ both => Contains(text, <<"via", " ", o.carrier, " ",
                                "dengan nomor resi", " ", o.tracking_number>>)
                   /\ ~both => ~Contains(text, <<"via">>)
                   /\ (o.eta_date # "" /\ o.status \in {"confirmed", "shipped"})
                        <=> Contains(text, <<"dengan estimasi tiba">>)
                   /\ Contains(text, <<"dengan estimasi tiba">>)
                        => Contains(text, <<"dengan estimasi tiba", " ", o.eta_date>>)
                   /\ o.status \notin MappedStatus =>
                        SubSeq(text, 1, 6) = <<"Pesanan", " ">> \o o.id \o <<" ", o.status>>

\* A delivered order with carrier, tracking number and ETA: the carrier
\* phrase is in the message, the ETA phrase is not.
C18_Witness ==
    \E p \in Procs :
        /\ pc[p] = "save_assistant"
        /\ llm_response[p].tool_calls = <<"get_order_status">>
        /\ \E o \in collab[p].db.orders :
            /\ o.status = "delivered" /\ o.eta_date # ""
            /\ o.carrier # "" /\ o.tracking_number # ""
            /\ Contains(llm_response[p].message, <<"telah sampai tujuan">>)
            /\ Contains(llm_response[p].message, <<"dengan nomor resi">>)
            /\ ~Contains(llm_response[p].message, <<"dengan estimasi tiba">>)

\* The warranty text a turn must answer with: the default procedure when no
\* policy of type warranty is stored, the stored content when one is.
WarrantyRows(db) == {q \in db.policies : q.type = "warranty"}

WarrantyText(db) ==
    IF WarrantyRows(db) = {} THEN DefaultWarrantyText
    ELSE (CHOOSE q \in WarrantyRows(db) : TRUE).content_markdown

\* The turn of p dispatched to the warranty tool and its lookup found no row
\* or one row.
WarrantyTurn(p) ==
    /\ pc[p] \in {"save_assistant", "done"}
    /\ ToolRouted(user_message[p]) = "get_warranty_policy"
    /\ ~collab[p].db.fault
    /\ Cardinality(WarrantyRows(collab[p].db)) <= 1

\* reply is text, a line break, and then one line that starts with "Ringkas:"
FollowedByRingkasLine(reply, text) ==
    /\ Len(reply) > Len(text)
    /\ SubSeq(reply, 1, Len(text)) = text
    /\ LET rest == SubSeq(reply, Len(text) + 1, Len(reply)) IN
        /\ Head(rest) = NL
        /\ Head(LStrip(rest)) = RINGKAS
        /\ \A i \in DOMAIN LStrip(rest) : LStrip(rest)[i] # NL

\* C19 as stated: for a warranty utterance the tool output is the default
\* five-step text when no warranty policy is stored and the stored content
\* when one is; tool_calls is [get_warranty_policy] and the reply is that
\* text followed by a Ringkas line.
C19_WarrantyReplyTextThenRingkas ==
    \A p \in Procs :
        WarrantyTurn(p) =>
            /\ llm_response[p].tool_calls = <<"get_warranty_policy">>
            /\ Dispatch(user_message[p], collab[p].db)[2]
                    = << <<"warranty_policy", WarrantyText(collab[p].db)>> >>
            /\ FollowedByRingkasLine(llm_response[p].message, WarrantyText(collab[p].db))

\* C19, amended: the same, except that a text which itself ends with
\* "Ringkas:" is the whole reply, nothing being appended to it.
C19_WarrantyReplyAmended ==
    \A p \in Procs :
        WarrantyTurn(p) =>
            LET text == WarrantyText(collab[p].db) IN
            /\ llm_response[p].tool_calls = <<"get_warranty_policy">>
            /\ Dispatch(user_message[p], collab[p].db)[2] = << <<"warranty_policy", text>> >>
            /\ IF EndsWith(text, <<RINGKAS>>)
               THEN llm_response[p].message = text
               ELSE FollowedByRingkasLine(llm_response[p].message, text)

C19_Witness ==
    \E p \in Procs :
        /\ pc[p] = "done"
        /\ WarrantyTurn(p)
        /\ collab[p].db.policies = {PolicyPlain}
        /\ result[p].tool_calls = <<"get_warranty_policy">>
        /\ FollowedByRingkasLine(result[p].message, PolicyPlain.content_markdown)

\* C20: when a tool produced output, the reply is the tool text with the
\* tool's summary line appended, unless the tool text already carries the
\* marker "Ringkas:", in which case nothing is appended; so the reply never
\* has two "Ringkas:" markers.
C20_ToolReplyHasOneRingkas ==
    \A p \in Procs :
        ( /\ pc[p] \in {"save_assistant", "done"}
          /\ llm_response[p].tool_calls # <<>> )
        => LET tool_result == Dispatch(user_message[p], collab[p].db)[2][1]
               reply == llm_response[p].message
           IN /\ reply = IF Contains(tool_result[2], <<RINGKAS>>)
                         THEN tool_result[2]
                         ELSE tool_result[2]
                              \o <<NL, NL, RINGKAS, " ", ToolSummary(tool_result[1])>>
              /\ Cardinality({i \in DOMAIN reply : reply[i] = RINGKAS}) <= 1

\* C21: once the product intent is selected (the order intent does not match,
\* the product intent does), the extracted product name is not empty and the
\* product tool is invoked: tool_calls is [get_product_info].
C21_ProductNameNeverEmpty ==
    \A p \in Procs :
        ( /\ pc[p] \in {"save_assistant", "done"}
          /\ ~AnyKeyword(OrderKeywords, user_message[p])
          /\ AnyKeyword(ProductKeywords, user_message[p]) )
        => /\ ExtractProductName(user_message[p]) # <<>>
           /\ llm_response[p].tool_calls = <<"get_product_info">>

C23_TurnFinishesUnlessBackendHangs ==
    /\ \A p \in Procs : (pc[p] = "next_turn") ~> (pc[p] \in {"done", "raised"})
    /\ [][\A p \in Procs :
            (pc[p] = "invoke" /\ pc'[p] # "invoke") =>
                /\ pc'[p] = "save_assistant"
                /\ collab'[p].backend.kind \in {"raise", "text"}
                /\ collab'[p].backend_calls = 1]_vars
    /\ [](\A p \in Procs :
            pc[p] = "invoke" =>
                ~ \E m \in messages :
                    /\ m.session_id = session_id[p]
                    /\ m.turn_index = turn_index[p]
                    /\ m.role = "assistant")

C23_Witness ==
    \E p \in Procs :
        /\ pc[p] = "done"
        /\ collab[p].backend_calls = 1
        /\ result[p].turn_index = 2

\* C24: in every reachable state each assistant message has a user message of
\* the same session and turn index that was persisted before it, clear_memory
\* calls interleaved with running turns included.
C24_AssistantHasEarlierUser ==
    \A a \in messages :
        a.role = "assistant" =>
            \E u \in messages :
                /\ u.role = "user"
                /\ u.session_id = a.session_id
                /\ u.turn_index = a.turn_index
                /\ u.created_at < a.created_at

\* The user messages of session s in table that have no assistant message of
\* their turn: what a turn that failed after its user write leaves behind.
Orphans(table, s) ==
    {u \in SessionRows(table, s) :
        /\ u.role = "user"
        /\ ~ \E a \in SessionRows(table, s) :
                a.role = "assistant" /\ a.turn_index = u.turn_index}

\* C25: in sequential use, a successful turn on a session that holds the user
\* message of a failed turn returns a turn index above the failed one, one
\* greater when the failed turn was the last one; the failed index is not
\* used again: its user message stays the only message with that index.
C25_FailedIndexNotReused ==
    \A p \in Procs :
        pc[p] = "done" =>
            \A u \in Orphans(before[p], session_id[p]) :
                /\ result[p].turn_index > u.turn_index
                /\ u.turn_index = MaxTurnOrZero(before[p], session_id[p])
                    => result[p].turn_index = u.turn_index + 1
                /\ {m \in SessionRows(messages, session_id[p]) :
                        m.turn_index = u.turn_index} = {u}

\* The first turn failed after its user write; the second one succeeded.
C25_Witness ==
    \E p \in Procs :
        /\ pc[p] = "done"
        /\ result[p].turn_index = 2
        /\ Cardinality(before[p]) = 1
        /\ \E u \in Orphans(messages, session_id[p]) : u.turn_index = 1

\* The stored messages of session s.
OwnRows(s) == {m \in messages : m.session_id = s}

\* C26: sessions do not interfere.  The turn index a call computes and the
\* excerpt it selects are functions of the stored messages of its own session
\* alone, and a step of a call, or a clear_memory call, on one session leaves
\* the stored messages of every other session as they were, whatever the
\* interleaving.
C26_SessionsDoNotInterfere ==
    [][ /\ \A p \in Procs :
            /\ GetNextTurnIndex(p) =>
                turn_index'[p] = MaxTurnOrZero(OwnRows(session_id[p]), session_id[p]) + 1
            /\ GetMemoryContext(p) =>
                memory_rows'[p] =
                    SelectMemoryRows(OwnRows(session_id[p]), session_id[p], max_exchanges)
            /\ pc'[p] # pc[p] =>
                \A s \in Sessions \ {session_id[p], session_id'[p]} :
                    {m \in messages' : m.session_id = s} = OwnRows(s)
        /\ \A s \in Sessions :
            ClearMemory(s) =>
                \A o \in Sessions \ {s} : {m \in messages' : m.session_id = o} = OwnRows(o)
      ]_vars

\* A turn on one session returned turn index 1 although a message of the
\* other session was written between its two messages.
C26_Witness ==
    \E p \in Procs :
        /\ pc[p] = "done"
        /\ result[p].turn_index = 1
        /\ cleared = 1
        /\ \E u \in OwnRows(session_id[p]), a \in OwnRows(session_id[p]), o \in messages :
            /\ u.role = "user" /\ a.role = "assistant"
            /\ o.session_id # session_id[p]
            /\ u.created_at < o.created_at /\ o.created_at < a.created_at

====
